---- MODULE Spec2Model ----
(***************************************************************************)
(* A model of trezorlib/mapping.py: the message registry (build_map,       *)
(* register_message) and ProtoAdapter (hint compilation, path resolution,  *)
(* type coercion, record assembly and elision), with the adapters of       *)
(* trezorlib/nem.py as the shapes of the hints.                            *)
(*                                                                         *)
(* Python values are records tagged by t; text is a sequence of one-       *)
(* character strings, so that split, the camelCase regex and lower() are   *)
(* computed character by character; a dict is the sequence of its          *)
(* <<key, value>> pairs in insertion order; a raised exception is the      *)
(* value [t |-> "raise", exc |-> <its class>].                             *)
(***************************************************************************)
EXTENDS Integers, Sequences, FiniteSets, TLC

VARIABLES
    phase,              \* "import" while mapping.py is being imported, then "ready" or "failed"
    map_type_to_class,  \* mapping.map_type_to_class: wire type -> class
    map_class_to_type,  \* mapping.map_class_to_type: class -> wire type
    adapter,            \* the ProtoAdapter under use, or NoAdapter
    op,                 \* the last operation called
    args,               \* its arguments
    result              \* what it returned or raised

vars == <<phase, map_type_to_class, map_class_to_type, adapter, op, args, result>>

-----------------------------------------------------------------------------
(* Python values *)

PyNone == [t |-> "none"]
PyInt(n) == [t |-> "int", i |-> n]
PyBool(b) == [t |-> "bool", b |-> b]
PyStr(s) == [t |-> "str", s |-> s]
PyBytes(y) == [t |-> "bytes", y |-> y]
PyList(l) == [t |-> "list", l |-> l]
PyDict(d) == [t |-> "dict", d |-> d]
PyMsg(cls, f) == [t |-> "msg", cls |-> cls, f |-> f]
Raise(exc) == [t |-> "raise", exc |-> exc]

IsRaise(v) == v.t = "raise"

\* d.keys(): the keys in insertion order
DictKeys(d) == [i \in 1..Len(d.d) |-> d.d[i][1]]

\* k in d
DictHas(d, k) == \E i \in 1..Len(d.d) : d.d[i][1] = k

\* d[k], for a key that is present
DictGet(d, k) == d.d[CHOOSE i \in 1..Len(d.d) : d.d[i][1] = k][2]

-----------------------------------------------------------------------------
(* Text *)

LowerOrDigit ==
    {"a","b","c","d","e","f","g","h","i","j","k","l","m","n","o","p","q","r",
     "s","t","u","v","w","x","y","z","0","1","2","3","4","5","6","7","8","9"}

ToLower ==
    [A |-> "a", B |-> "b", C |-> "c", D |-> "d", E |-> "e", F |-> "f", G |-> "g",
     H |-> "h", I |-> "i", J |-> "j", K |-> "k", L |-> "l", M |-> "m", N |-> "n",
     O |-> "o", P |-> "p", Q |-> "q", R |-> "r", S |-> "s", T |-> "t", U |-> "u",
     V |-> "v", W |-> "w", X |-> "x", Y |-> "y", Z |-> "z"]

Upper == DOMAIN ToLower

\* str.lower()
lower(s) == [i \in 1..Len(s) |-> IF s[i] \in Upper THEN ToLower[s[i]] ELSE s[i]]

\* re.compile(r'([a-z0-9])([A-Z])').sub(r'\1_\2', key): leftmost matches,
\* not overlapping, scanned from position i
RECURSIVE camelcase_sub_from(_, _)
camelcase_sub_from(key, i) ==
    IF i > Len(key) THEN <<>>
    ELSE IF i < Len(key) /\ key[i] \in LowerOrDigit /\ key[i + 1] \in Upper
         THEN <<key[i], "_", key[i + 1]>> \o camelcase_sub_from(key, i + 2)
         ELSE <<key[i]>> \o camelcase_sub_from(key, i + 1)

camelcase_sub(key) == camelcase_sub_from(key, 1)

\* pathstr.split('.'): cur is the step being read at position i
RECURSIVE split_from(_, _, _)
split_from(s, i, cur) ==
    IF i > Len(s) THEN <<cur>>
    ELSE IF s[i] = "." THEN <<cur>> \o split_from(s, i + 1, <<>>)
         ELSE split_from(s, i + 1, Append(cur, s[i]))

split(pathstr) == split_from(pathstr, 1, <<>>)

-----------------------------------------------------------------------------
(* The message registry *)

\* the dict assignment f[k] = v
DictSet(f, k, v) == [x \in (DOMAIN f) \cup {k} |-> IF x = k THEN v ELSE f[x]]

EmptyMap == [x \in {} |-> x]

\* A message class, as the registry sees it
MsgClass(name, wire) == [t |-> "class", name |-> name, MESSAGE_WIRE_TYPE |-> wire]

\* register_message without the test for a wire type already registered
register_message_overwrite(msg_class, t2c, c2t) ==
    [t2c |-> DictSet(t2c, msg_class.MESSAGE_WIRE_TYPE, msg_class),
     c2t |-> DictSet(c2t, msg_class, msg_class.MESSAGE_WIRE_TYPE),
     out |-> PyNone]

\* register_message(msg_class) on the maps t2c, c2t: the maps it leaves and
\* what it returns or raises
register_message(msg_class, t2c, c2t) ==
    IF msg_class.MESSAGE_WIRE_TYPE \in DOMAIN t2c
    THEN [t2c |-> t2c, c2t |-> c2t, out |-> Raise("Exception")]
    ELSE [t2c |-> DictSet(t2c, msg_class.MESSAGE_WIRE_TYPE, msg_class),
          c2t |-> DictSet(c2t, msg_class, msg_class.MESSAGE_WIRE_TYPE),
          out |-> PyNone]

\* What the import finds in trezorlib.messages, one case per way build_map ends.
\* MessageTypeEnum: dir(messages.MessageType) without the dunder names, in
\* dir()'s sorted order, each with getattr(messages.MessageType, name).
\* MessagesModule: the classes getattr(messages, name) finds.
Envs == {"consistent", "missing", "inconsistent", "duplicate"}

MessageTypeEnum(env) ==
    IF env = "missing"
    THEN << <<"Initialize", 0>>, <<"NEMSignTx", 69>>, <<"Ping", 1>>, <<"Success", 2>> >>
    ELSE IF env = "duplicate"
    THEN << <<"Initialize", 0>>, <<"NEMSignTx", 69>>, <<"Ping", 1>>, <<"Pong", 1>> >>
    ELSE << <<"Initialize", 0>>, <<"NEMSignTx", 69>>, <<"Ping", 1>> >>

MessagesModule(env) ==
    IF env = "inconsistent"
    THEN [Initialize |-> MsgClass("Initialize", 0), NEMSignTx |-> MsgClass("NEMSignTx", 69),
          Ping |-> MsgClass("Ping", 2)]
    ELSE IF env = "duplicate"
    THEN [Initialize |-> MsgClass("Initialize", 0), NEMSignTx |-> MsgClass("NEMSignTx", 69),
          Ping |-> MsgClass("Ping", 1), Pong |-> MsgClass("Pong", 1)]
    ELSE [Initialize |-> MsgClass("Initialize", 0), NEMSignTx |-> MsgClass("NEMSignTx", 69),
          Ping |-> MsgClass("Ping", 1)]

\* build_map(): the loop from the i-th name on
RECURSIVE build_map_from(_, _, _, _)
build_map_from(env, i, t2c, c2t) ==
    IF i > Len(MessageTypeEnum(env))
    THEN [t2c |-> t2c, c2t |-> c2t, out |-> PyNone]
    ELSE LET msg_name == MessageTypeEnum(env)[i][1]
         IN  IF msg_name \notin DOMAIN MessagesModule(env)
             THEN [t2c |-> t2c, c2t |-> c2t, out |-> Raise("ValueError")]
             ELSE LET msg_class == MessagesModule(env)[msg_name]
                  IN  IF msg_class.MESSAGE_WIRE_TYPE # MessageTypeEnum(env)[i][2]
                      THEN [t2c |-> t2c, c2t |-> c2t, out |-> Raise("ValueError")]
                      ELSE LET r == register_message(msg_class, t2c, c2t)
                           IN  IF IsRaise(r.out) THEN r
                               ELSE build_map_from(env, i + 1, r.t2c, r.c2t)

build_map(env) == build_map_from(env, 1, EmptyMap, EmptyMap)

\* The classes a caller registers after the import
ExtraClasses ==
    {MsgClass("Initialize", 0), MsgClass("FakePing", 1),
     MsgClass("DebugLinkA", 100), MsgClass("DebugLinkB", 100),
     MsgClass("Custom1", 101), MsgClass("Custom2", 102), MsgClass("Custom3", 103)}

-----------------------------------------------------------------------------
(* The schema provider: trezorlib.protobuf and trezorlib.messages *)

\* A field type of trezorlib.protobuf
Type(name) == [t |-> "class", name |-> name]

UVarintType == Type("UVarintType")
Sint32Type == Type("Sint32Type")
BoolType == Type("BoolType")
BytesType == Type("BytesType")
UnicodeType == Type("UnicodeType")

\* Message classes, cut down to fields of every type the adapter handles
NEMMosaic == Type("NEMMosaic")
NEMTransfer == Type("NEMTransfer")
NEMSignTx == MsgClass("NEMSignTx", 69)

MessageTypes == {NEMMosaic, NEMTransfer, NEMSignTx}

FLAG_REPEATED == 1

\* Field names and the keys the hints name
n_namespace == <<"n","a","m","e","s","p","a","c","e">>
n_quantity == <<"q","u","a","n","t","i","t","y">>
n_amount == <<"a","m","o","u","n","t">>
n_public_key == <<"p","u","b","l","i","c","_","k","e","y">>
n_mosaics == <<"m","o","s","a","i","c","s">>
n_transfer == <<"t","r","a","n","s","f","e","r">>
n_cosigning == <<"c","o","s","i","g","n","i","n","g">>
n_version == <<"v","e","r","s","i","o","n">>
n_mosaicId == <<"m","o","s","a","i","c","I","d">>
n_namespaceId == <<"n","a","m","e","s","p","a","c","e","I","d">>
n_publicKey == <<"p","u","b","l","i","c","K","e","y">>
n_message == <<"m","e","s","s","a","g","e">>
n_timeStamp == <<"t","i","m","e","S","t","a","m","p">>
n_time_stamp == <<"t","i","m","e","_","s","t","a","m","p">>
n_mosaic_id == <<"m","o","s","a","i","c","_","i","d">>

\* message_type.FIELDS.values(): <<name, typeinfo, flags>> in declaration order
FIELDS(message_type) ==
    IF message_type = NEMMosaic
    THEN << <<n_namespace, UnicodeType, 0>>, <<n_quantity, UVarintType, 0>> >>
    ELSE IF message_type = NEMTransfer
    THEN << <<n_amount, UVarintType, 0>>, <<n_public_key, BytesType, 0>>,
            <<n_mosaics, NEMMosaic, FLAG_REPEATED>> >>
    ELSE << <<n_transfer, NEMTransfer, 0>>, <<n_cosigning, BoolType, 0>> >>

\* issubclass(typeinfo, protobuf.MessageType)
issubclass_MessageType(typeinfo) == typeinfo \in MessageTypes

\* isinstance(x, protobuf.MessageType): x is an instance of a message class.
\* A class object, such as a field's typeinfo, is an instance of type, not of
\* MessageType.
isinstance_MessageType(x) == x.t = "msg"

\* isinstance(value, typeinfo) for a message class typeinfo
isinstance_of(value, typeinfo) == value.t = "msg" /\ value.cls = typeinfo

\* flags & protobuf.FLAG_REPEATED, as the truth value Python tests
flag_repeated(flags) == (flags \div FLAG_REPEATED) % 2 = 1

-----------------------------------------------------------------------------
(* Hints, as the Python objects they are *)

HintNone == [h |-> "none"]
HintStr(path) == [h |-> "str", s |-> path]
HintCallable(fn) == [h |-> "callable", fn |-> fn]
HintTuple(items) == [h |-> "tuple", items |-> items]
HintDict(d) == [h |-> "dict", d |-> d]
HintList(l) == [h |-> "list", l |-> l]
HintOther == [h |-> "int"]

-----------------------------------------------------------------------------
(* ProtoAdapter *)

BYTES_NOCONVERSION == 0
BYTES_HEX == 1
BYTES_BASE64 == 2

\* find_with_case: the key found, as a str, or None
RECURSIVE first_converted(_, _, _)
first_converted(string, keys, i) ==
    IF i > Len(keys) THEN PyNone
    ELSE IF lower(camelcase_sub(keys[i])) = string THEN PyStr(keys[i])
         ELSE first_converted(string, keys, i + 1)

\* find_with_case with the converted keys tried before the exact one
find_with_case_converted_first(self, string, keys) ==
    IF self.camel_case /\ first_converted(string, keys, 1) # PyNone
    THEN first_converted(string, keys, 1)
    ELSE IF \E i \in 1..Len(keys) : keys[i] = string THEN PyStr(string)
    ELSE PyNone

find_with_case(self, string, keys) ==
    IF \E i \in 1..Len(keys) : keys[i] = string THEN PyStr(string)
    ELSE IF self.camel_case THEN first_converted(string, keys, 1)
         ELSE PyNone

\* traverse_path: the loop over the steps left, from root
RECURSIVE traverse_steps(_, _, _)
traverse_steps(self, path, root) ==
    IF path = <<>> THEN root
    ELSE IF root.t # "dict" THEN Raise("AttributeError")   \* root.keys()
    ELSE LET key == find_with_case(self, Head(path), DictKeys(root))
         IN  IF key = PyNone THEN PyNone
             ELSE traverse_steps(self, Tail(path), DictGet(root, key.s))

traverse_path(self, pathstr, data) == traverse_steps(self, split(pathstr), data)


\* The conversions _coerce_type calls
DigitChars == <<"0","1","2","3","4","5","6","7","8","9">>

DigitValue(c) == (CHOOSE i \in 1..10 : DigitChars[i] = c) - 1

IsDigits(s) == Len(s) > 0 /\ \A i \in 1..Len(s) : \E j \in 1..10 : DigitChars[j] = s[i]

RECURSIVE digits_value(_, _)
digits_value(s, acc) ==
    IF s = <<>> THEN acc ELSE digits_value(Tail(s), 10 * acc + DigitValue(Head(s)))

RECURSIVE digits_of(_)
digits_of(n) ==
    IF n < 10 THEN <<DigitChars[n + 1]>>
    ELSE Append(digits_of(n \div 10), DigitChars[(n % 10) + 1])

\* int(value): of an int, a bool, or text holding a signed decimal number
py_int(value) ==
    IF value.t = "int" THEN value
    ELSE IF value.t = "bool" THEN PyInt(IF value.b THEN 1 ELSE 0)
    ELSE IF value.t = "str"
    THEN IF IsDigits(value.s) THEN PyInt(digits_value(value.s, 0))
         ELSE IF Len(value.s) > 1 /\ Head(value.s) \in {"+", "-"} /\ IsDigits(Tail(value.s))
         THEN PyInt(IF Head(value.s) = "-" THEN 0 - digits_value(Tail(value.s), 0)
                    ELSE digits_value(Tail(value.s), 0))
         ELSE Raise("ValueError")
    ELSE Raise("TypeError")

\* bool(value)
py_bool(value) ==
    IF value.t = "none" THEN FALSE
    ELSE IF value.t = "int" THEN value.i # 0
    ELSE IF value.t = "bool" THEN value.b
    ELSE IF value.t = "str" THEN value.s # <<>>
    ELSE IF value.t = "list" THEN value.l # <<>>
    ELSE IF value.t = "dict" THEN value.d # <<>>
    ELSE TRUE

\* repr(value), and str(value), which differs from it on text only
RECURSIVE py_repr(_)
RECURSIVE repr_items(_, _)
repr_items(l, i) ==
    IF i > Len(l) THEN <<>>
    ELSE (IF i > 1 THEN <<",", " ">> ELSE <<>>) \o py_repr(l[i]) \o repr_items(l, i + 1)

RECURSIVE repr_pairs(_, _)
repr_pairs(d, i) ==
    IF i > Len(d) THEN <<>>
    ELSE (IF i > 1 THEN <<",", " ">> ELSE <<>>)
         \o <<"'">> \o d[i][1] \o <<"'", ":", " ">> \o py_repr(d[i][2]) \o repr_pairs(d, i + 1)

py_repr(value) ==
    IF value.t = "none" THEN <<"N","o","n","e">>
    ELSE IF value.t = "int"
    THEN (IF value.i < 0 THEN <<"-">> \o digits_of(0 - value.i) ELSE digits_of(value.i))
    ELSE IF value.t = "bool"
    THEN (IF value.b THEN <<"T","r","u","e">> ELSE <<"F","a","l","s","e">>)
    ELSE IF value.t = "str" THEN <<"'">> \o value.s \o <<"'">>
    ELSE IF value.t = "list" THEN <<"[">> \o repr_items(value.l, 1) \o <<"]">>
    ELSE IF value.t = "dict" THEN <<"{">> \o repr_pairs(value.d, 1) \o <<"}">>
    ELSE <<"<", value.cls.name, ">">>

py_str(value) == IF value.t = "str" THEN value.s ELSE py_repr(value)

HexChars == <<"0","1","2","3","4","5","6","7","8","9","a","b","c","d","e","f">>

IsHex(c) == \E i \in 1..16 : HexChars[i] = lower(<<c>>)[1]

HexValue(c) == (CHOOSE i \in 1..16 : HexChars[i] = lower(<<c>>)[1]) - 1

\* binascii.unhexlify(text): the bytes, or binascii.Error on an odd length or
\* a character that is no hexadecimal digit
unhexlify(text) ==
    IF Len(text) % 2 # 0 \/ \E i \in 1..Len(text) : ~IsHex(text[i])
    THEN Raise("binascii.Error")
    ELSE PyBytes([i \in 1..(Len(text) \div 2) |->
                     16 * HexValue(text[2 * i - 1]) + HexValue(text[2 * i])])

\* The first exception among the values of l, if any
FirstRaise(l) ==
    IF \E i \in 1..Len(l) : IsRaise(l[i])
    THEN l[CHOOSE i \in 1..Len(l) : IsRaise(l[i]) /\ \A j \in 1..(i - 1) : ~IsRaise(l[j])]
    ELSE PyNone

\* _coerce_type with repeated false
coerce_one(self, name, value, typeinfo) ==
    IF value = PyNone THEN PyNone
    ELSE IF issubclass_MessageType(typeinfo)
    THEN (IF ~isinstance_of(value, typeinfo) THEN Raise("AdapterError") ELSE value)
    ELSE IF typeinfo = UVarintType
    THEN LET v == py_int(value)
         IN  IF IsRaise(v) THEN v
             ELSE IF v.i < 0 THEN Raise("AdapterError") ELSE v
    ELSE IF typeinfo = Sint32Type THEN py_int(value)
    ELSE IF typeinfo = BoolType THEN PyBool(py_bool(value))
    ELSE IF typeinfo = BytesType
    THEN (IF value.t \notin {"str", "bytes"} THEN Raise("AdapterError")
          ELSE unhexlify(value.s))
    ELSE IF typeinfo = UnicodeType THEN PyStr(py_str(value))
    ELSE Raise("RuntimeError")

\* _coerce_type with the None items of a list left out
coerce_type_drop_none(self, name, value, typeinfo, repeated) ==
    IF repeated
    THEN IF value.t # "list" THEN Raise("AdapterError")
         ELSE LET items == [i \in 1..Len(value.l) |-> coerce_one(self, name, value.l[i], typeinfo)]
              IN  IF FirstRaise(items) # PyNone THEN FirstRaise(items)
                  ELSE PyList(SelectSeq(items, LAMBDA x : x # PyNone))
    ELSE coerce_one(self, name, value, typeinfo)

\* _coerce_type
coerce_type(self, name, value, typeinfo, repeated) ==
    IF repeated
    THEN IF value.t # "list" THEN Raise("AdapterError")
         ELSE LET items == [i \in 1..Len(value.l) |-> coerce_one(self, name, value.l[i], typeinfo)]
              IN  IF FirstRaise(items) # PyNone THEN FirstRaise(items) ELSE PyList(items)
    ELSE coerce_one(self, name, value, typeinfo)

\* The transform functions given as hints: nem.py's
\* lambda t: (t['version'] >> 24) & 0xff
apply_fn(fn, t) ==
    IF t.t # "dict" THEN Raise("TypeError")
    ELSE IF ~DictHas(t, n_version) THEN Raise("KeyError")
    ELSE LET v == DictGet(t, n_version)
         IN  IF v.t = "int" THEN PyInt((v.i \div 16777216) % 256)
             ELSE IF v.t = "bool" THEN PyInt(0)
             ELSE Raise("TypeError")

\* iter(value): the items map() walks, or TypeError
py_iter(value) ==
    IF value.t = "list" THEN value
    ELSE IF value.t = "dict" THEN PyList([i \in 1..Len(value.d) |-> PyStr(value.d[i][1])])
    ELSE IF value.t = "str" THEN PyList([i \in 1..Len(value.s) |-> PyStr(<<value.s[i]>>)])
    ELSE Raise("TypeError")

\* bool(self.select_field)
select_field_set(self) == self.select_field.t = "str" /\ self.select_field.s # <<>>

\* The test of emptiness written as `if value:`
not_empty_truthy(value) == py_bool(value)

\* value is not None and value != []
not_empty(value) == value # PyNone /\ value # PyList(<<>>)

\* A compiled action (None, a reader of read_field or map_action, a transform,
\* a ProtoAdapter) applied to data
RECURSIVE call(_, _)
RECURSIVE run_action(_, _, _)
RECURSIVE call_fields(_, _, _, _, _)

\* map_action's reader returning None, not [], for a path that resolves to None
run_action_none(self, action, data) ==
    IF action.a = "read_field" THEN traverse_path(self, action.path, data)
    ELSE IF action.a = "callable" THEN apply_fn(action.fn, data)
    ELSE IF action.a = "adapter" THEN call(action.adapter, data)
    ELSE LET iterable == traverse_path(self, action.path, data)
         IN  IF IsRaise(iterable) \/ iterable = PyNone THEN iterable
             ELSE LET it == py_iter(iterable)
                  IN  IF IsRaise(it) THEN it
                      ELSE LET items == [i \in 1..Len(it.l) |->
                                            run_action(self, action.action, it.l[i])]
                           IN  IF FirstRaise(items) # PyNone THEN FirstRaise(items)
                               ELSE PyList(items)

run_action(self, action, data) ==
    IF action.a = "read_field" THEN traverse_path(self, action.path, data)
    ELSE IF action.a = "callable" THEN apply_fn(action.fn, data)
    ELSE IF action.a = "adapter" THEN call(action.adapter, data)
    ELSE LET iterable == traverse_path(self, action.path, data)
         IN  IF IsRaise(iterable) THEN iterable
             ELSE IF iterable = PyNone THEN PyList(<<>>)
             ELSE LET it == py_iter(iterable)
                  IN  IF IsRaise(it) THEN it
                      ELSE LET items == [i \in 1..Len(it.l) |->
                                            run_action(self, action.action, it.l[i])]
                           IN  IF FirstRaise(items) # PyNone THEN FirstRaise(items)
                               ELSE PyList(items)

\* __call__, lines 262-265: the value of the field of processor p
field_value(self, p, data) ==
    IF p.action.a = "None" THEN (IF p.repeated THEN PyList(<<>>) ELSE PyNone)
    ELSE LET raw == run_action(self, p.action, data)
         IN  IF IsRaise(raw) THEN raw
             ELSE coerce_type(self, p.name, raw, p.typeinfo, p.repeated)

\* __call__: the loop over self.processors from the i-th on, the fields set
\* so far in obj
call_fields(self, data, i, obj, empty_obj) ==
    IF i > Len(self.processors)
    THEN IF empty_obj THEN PyNone ELSE PyMsg(self.message_type, obj)
    ELSE LET p == self.processors[i]
             value == field_value(self, p, data)
         IN  IF IsRaise(value) THEN value
             ELSE call_fields(self, data, i + 1, Append(obj, <<p.name, value>>),
                              empty_obj /\ ~not_empty(value))

\* __call__ looking select_field up as a path step, by find_with_case
call_select_with_case(self, data) ==
    IF select_field_set(self)
    THEN IF data.t # "dict" THEN Raise("TypeError")
         ELSE LET key == find_with_case(self, self.select_field.s, DictKeys(data))
              IN  IF key = PyNone THEN PyNone
                  ELSE call_fields(self, DictGet(data, key.s), 1, <<>>, TRUE)
    ELSE call_fields(self, data, 1, <<>>, TRUE)

\* __call__
call(self, data) ==
    IF select_field_set(self)
    THEN IF data.t # "dict" THEN Raise("TypeError")
         ELSE IF ~DictHas(data, self.select_field.s) THEN PyNone
         ELSE call_fields(self, DictGet(data, self.select_field.s), 1, <<>>, TRUE)
    ELSE call_fields(self, data, 1, <<>>, TRUE)

\* The compiled actions: None, the readers of read_field and map_action, a
\* transform function, a ProtoAdapter
ActNone == [t |-> "action", a |-> "None"]
ActRead(path) == [t |-> "action", a |-> "read_field", path |-> path]
ActCallable(fn) == [t |-> "action", a |-> "callable", fn |-> fn]
ActAdapter(ad) == [t |-> "action", a |-> "adapter", adapter |-> ad]
ActMap(path, action) == [t |-> "action", a |-> "map_action", path |-> path, action |-> action]

\* hints[name], for a name in hints
HintGet(hints, name) == hints.d[CHOOSE i \in 1..Len(hints.d) : hints.d[i][1] = name][2]

\* name in hints
HintHas(hints, name) == \E i \in 1..Len(hints.d) : hints.d[i][1] = name

\* The str or None object handed on as select_field
as_value(obj) == IF obj.h = "str" THEN PyStr(obj.s) ELSE PyNone

\* preprocess_hints, lines 151-161: the hint of a field, explicit or default
hint_of(hints, name, typeinfo, repeated) ==
    IF HintHas(hints, name) THEN HintGet(hints, name)
    ELSE IF repeated THEN HintNone
    ELSE IF isinstance_MessageType(typeinfo) THEN HintTuple(<<HintStr(name), HintDict(<<>>)>>)
    ELSE HintStr(name)

RECURSIVE ProtoAdapter(_, _, _, _, _)
RECURSIVE preprocess_from(_, _, _, _)
RECURSIVE compile_hint(_, _, _, _, _)

\* dict_to_adapter
dict_to_adapter(self, name, typeinfo, hints) ==
    ProtoAdapter(typeinfo, hints, name, PyBool(self.camel_case), PyInt(self.bytes_conversion))

\* preprocess_hints, lines 180-185: a dict hint, bare or second in a tuple
compile_dict_hint(self, name, rename, typeinfo, repeated, hint) ==
    IF repeated THEN Raise("ValueError")
    ELSE IF ~issubclass_MessageType(typeinfo) THEN Raise("ValueError")
    ELSE LET sub == dict_to_adapter(self, as_value(rename), typeinfo, hint)
         IN  IF IsRaise(sub) THEN sub ELSE ActAdapter(sub)

\* A list hint compiled with the test of its length loosened to non-empty
compile_list_hint_any_length(self, name, rename, typeinfo, repeated, hint) ==
    IF ~repeated THEN Raise("ValueError")
    ELSE IF Len(hint.l) = 0 THEN Raise("ValueError")
    ELSE LET item == hint.l[1]
             sub == IF item.h = "dict"
                    THEN IF ~issubclass_MessageType(typeinfo) THEN Raise("ValueError")
                         ELSE LET ad == dict_to_adapter(self, PyNone, typeinfo, item)
                              IN  IF IsRaise(ad) THEN ad ELSE ActAdapter(ad)
                    ELSE IF item.h = "callable" THEN ActCallable(item.fn)
                    ELSE Raise("ValueError")
         IN  IF IsRaise(sub) THEN sub ELSE ActMap(rename.s, sub)

\* preprocess_hints, lines 187-203: a list hint, bare or second in a tuple
compile_list_hint(self, name, rename, typeinfo, repeated, hint) ==
    IF ~repeated THEN Raise("ValueError")
    ELSE IF Len(hint.l) # 1 THEN Raise("ValueError")
    ELSE LET item == hint.l[1]
             sub == IF item.h = "dict"
                    THEN IF ~issubclass_MessageType(typeinfo) THEN Raise("ValueError")
                         ELSE LET ad == dict_to_adapter(self, PyNone, typeinfo, item)
                              IN  IF IsRaise(ad) THEN ad ELSE ActAdapter(ad)
                    ELSE IF item.h = "callable" THEN ActCallable(item.fn)
                    ELSE Raise("ValueError")
         IN  IF IsRaise(sub) THEN sub ELSE ActMap(rename.s, sub)

\* preprocess_hints, lines 163-206: the action of one field, or the error raised
compile_hint(self, name, typeinfo, repeated, hint0) ==
    IF hint0.h = "none" THEN ActNone
    ELSE IF hint0.h = "str"
    THEN (IF repeated THEN Raise("ValueError") ELSE ActRead(hint0.s))
    ELSE IF hint0.h = "callable" THEN ActCallable(hint0.fn)
    ELSE IF hint0.h = "tuple" /\ Len(hint0.items) # 2 THEN Raise("ValueError")
    ELSE LET rename == IF hint0.h = "tuple" THEN hint0.items[1] ELSE HintStr(name)
             hint == IF hint0.h = "tuple" THEN hint0.items[2] ELSE hint0
         IN  IF hint.h = "dict"
             THEN compile_dict_hint(self, name, rename, typeinfo, repeated, hint)
             ELSE IF hint.h = "list"
             THEN compile_list_hint(self, name, rename, typeinfo, repeated, hint)
             ELSE Raise("ValueError")

\* preprocess_hints: the loop over the fields from the i-th on
preprocess_from(self, hints, i, processors) ==
    IF i > Len(FIELDS(self.message_type)) THEN [t |-> "processors", l |-> processors]
    ELSE LET name == FIELDS(self.message_type)[i][1]
             typeinfo == FIELDS(self.message_type)[i][2]
             repeated == flag_repeated(FIELDS(self.message_type)[i][3])
             action == compile_hint(self, name, typeinfo, repeated,
                                    hint_of(hints, name, typeinfo, repeated))
         IN  IF IsRaise(action) THEN action
             ELSE preprocess_from(self, hints, i + 1,
                      Append(processors, [name |-> name, typeinfo |-> typeinfo,
                                          repeated |-> repeated, action |-> action]))

preprocess_hints(self, hints) == preprocess_from(self, hints, 1, <<>>)

\* ProtoAdapter.__init__: the adapter constructed, or the error raised
ProtoAdapter(message_type, hints, select_field, camel_case, bytes_conversion) ==
    LET self == [message_type |-> message_type,
                 camel_case |-> py_bool(camel_case),
                 bytes_conversion |-> IF py_bool(bytes_conversion) THEN bytes_conversion.i
                                      ELSE BYTES_HEX,
                 select_field |-> select_field]
        processors == preprocess_hints(self, IF hints.h = "none" THEN HintDict(<<>>) ELSE hints)
    IN  IF IsRaise(processors) THEN processors
        ELSE [t |-> "adapter", message_type |-> message_type, camel_case |-> self.camel_case,
              bytes_conversion |-> self.bytes_conversion, select_field |-> select_field,
              processors |-> processors.l]

-----------------------------------------------------------------------------
(* The adapter not yet constructed *)
NoAdapter == [t |-> "none"]

Init ==
    /\ phase = "import"
    /\ map_type_to_class = EmptyMap
    /\ map_class_to_type = EmptyMap
    /\ adapter = NoAdapter
    /\ op = "none"
    /\ args = <<>>
    /\ result = PyNone

\* import trezorlib.mapping: its last statement runs build_map()
BuildMap(env) ==
    /\ phase = "import"
    /\ LET r == build_map(env)
       IN  /\ map_type_to_class' = r.t2c
           /\ map_class_to_type' = r.c2t
           /\ result' = r.out
           /\ phase' = IF IsRaise(r.out) THEN "failed" ELSE "ready"
    /\ op' = "build_map"
    /\ args' = <<env>>
    /\ UNCHANGED adapter

\* mapping.register_message(msg_class)
RegisterMessage(msg_class) ==
    /\ phase = "ready"
    /\ LET r == register_message(msg_class, map_type_to_class, map_class_to_type)
       IN  /\ map_type_to_class' = r.t2c
           /\ map_class_to_type' = r.c2t
           /\ result' = r.out
    /\ op' = "register_message"
    /\ args' = <<msg_class>>
    /\ UNCHANGED <<phase, adapter>>

NextRegistry ==
    \/ \E env \in Envs : BuildMap(env)
    \/ \E msg_class \in ExtraClasses : RegisterMessage(msg_class)

SpecRegistry == Init /\ [][NextRegistry]_vars

\* C7: the two maps are mutual inverses in every state, and a register_message
\* call for a class whose wire type is already in map_type_to_class raises and
\* changes neither map.
RegistryBijection ==
    /\ \A w \in DOMAIN map_type_to_class :
          /\ map_type_to_class[w] \in DOMAIN map_class_to_type
          /\ map_class_to_type[map_type_to_class[w]] = w
    /\ \A c \in DOMAIN map_class_to_type :
          /\ map_class_to_type[c] \in DOMAIN map_type_to_class
          /\ map_type_to_class[map_class_to_type[c]] = c

C7_RegistryBijection ==
    /\ []RegistryBijection
    /\ [][(op' = "register_message"
             /\ args'[1].MESSAGE_WIRE_TYPE \in DOMAIN map_type_to_class)
          => (IsRaise(result') /\ UNCHANGED <<map_type_to_class, map_class_to_type>>)]_vars

C7_Witness ==
    /\ op = "register_message"
    /\ IsRaise(result)
    /\ Cardinality(DOMAIN map_type_to_class) >= 5

-----------------------------------------------------------------------------
(* Construction and use of an adapter *)

\* adapter = ProtoAdapter(message_type, hints, select_field=..., camel_case=...)
\* at module level, as nem.py builds its adapters; an error ends the import
Construct(message_type, hints, select_field, camel_case) ==
    /\ phase = "ready"
    /\ adapter = NoAdapter
    /\ op # "ProtoAdapter"
    /\ LET r == ProtoAdapter(message_type, hints, select_field, PyBool(camel_case), PyNone)
       IN  /\ result' = r
           /\ adapter' = IF IsRaise(r) THEN adapter ELSE r
    /\ op' = "ProtoAdapter"
    /\ args' = <<message_type, hints, select_field, camel_case>>
    /\ UNCHANGED <<phase, map_type_to_class, map_class_to_type>>

\* adapter(data) emptying the adapter's processors when the call raises
Call_clearing(data) ==
    /\ adapter # NoAdapter
    /\ result' = call(adapter, data)
    /\ op' = "call"
    /\ args' = <<data>>
    /\ adapter' = IF IsRaise(call(adapter, data)) THEN [adapter EXCEPT !.processors = <<>>]
                  ELSE adapter
    /\ UNCHANGED <<phase, map_type_to_class, map_class_to_type>>

\* adapter(data)
Call(data) ==
    /\ adapter # NoAdapter
    /\ result' = call(adapter, data)
    /\ op' = "call"
    /\ args' = <<data>>
    /\ UNCHANGED <<phase, map_type_to_class, map_class_to_type, adapter>>

\* adapter.traverse_path(pathstr, data)
TraversePath(pathstr, data) ==
    /\ adapter # NoAdapter
    /\ result' = traverse_path(adapter, pathstr, data)
    /\ op' = "traverse_path"
    /\ args' = <<pathstr, data>>
    /\ UNCHANGED <<phase, map_type_to_class, map_class_to_type, adapter>>

-----------------------------------------------------------------------------
(* Hint compilation: the hints *)

MaxHints == 1

\* The dicts of at most n entries over the fields of opts from the i-th on,
\* opts[i] a field name with the hints to choose its entry from
RECURSIVE DictsFrom(_, _, _)
DictsFrom(opts, i, n) ==
    IF i > Len(opts) THEN {<<>>}
    ELSE DictsFrom(opts, i + 1, n) \cup
         (IF n = 0 THEN {}
          ELSE {<< <<opts[i][1], h>> >> \o d : h \in opts[i][2], d \in DictsFrom(opts, i + 1, n - 1)})

network == "network"

\* Hints of every shape for a field that is neither repeated nor a message
PrimHints(name) ==
    {HintNone, HintStr(name), HintCallable(network), HintOther, HintDict(<<>>), HintList(<<HintCallable(network)>>),
     HintTuple(<<HintStr(name), HintDict(<<>>)>>)}

\* Hint dicts for NEMMosaic; "version" is no field of it
MosaicHintDicts ==
    DictsFrom(<< <<n_namespace, PrimHints(n_namespace)>>, <<n_quantity, PrimHints(n_quantity)>>,
                 <<n_version, {HintOther}>> >>, 1, MaxHints)

\* Hints of every shape for the repeated message field mosaics
MosaicsHints ==
    {HintNone, HintStr(n_mosaics), HintCallable(network), HintOther, HintDict(<<>>),
     HintList(<<>>), HintList(<<HintCallable(network)>>), HintList(<<HintOther>>),
     HintList(<<HintStr(n_mosaics)>>), HintList(<<HintDict(<<>>), HintDict(<<>>)>>),
     HintTuple(<<HintStr(n_mosaics), HintDict(<<>>)>>),
     HintTuple(<<HintStr(n_mosaics), HintList(<<HintDict(<<>>)>>), HintNone>>)}
        \cup {HintList(<<HintDict(d)>>) : d \in MosaicHintDicts}
        \cup {HintTuple(<<HintStr(n_mosaics), HintList(<<HintDict(d)>>)>>) : d \in MosaicHintDicts}

TransferHintDicts ==
    DictsFrom(<< <<n_amount, PrimHints(n_amount)>>, <<n_public_key, PrimHints(n_public_key)>>,
                 <<n_mosaics, MosaicsHints>> >>, 1, MaxHints)

\* Hints of every shape for the message field transfer
TransferHints ==
    {HintNone, HintStr(n_transfer), HintCallable(network), HintOther,
     HintList(<<HintDict(<<>>)>>)}
        \cup {HintDict(d) : d \in TransferHintDicts}
        \cup {HintTuple(<<HintStr(n_transfer), HintDict(d)>>) : d \in TransferHintDicts}

SignTxHintDicts ==
    DictsFrom(<< <<n_transfer, TransferHints>>, <<n_cosigning, PrimHints(n_cosigning)>> >>,
              1, MaxHints)

\* message_type, hints and select_field of the adapters constructed
Constructions ==
    ({NEMMosaic} \X {HintDict(d) : d \in MosaicHintDicts} \X {PyNone, PyStr(n_mosaicId)})
        \cup ({NEMTransfer} \X {HintDict(d) : d \in TransferHintDicts}
                 \X {PyNone, PyStr(n_transfer)})
        \cup ({NEMSignTx} \X ({HintNone} \cup {HintDict(d) : d \in SignTxHintDicts}) \X {PyNone})

NextCompile ==
    \/ \E env \in Envs : BuildMap(env)
    \/ /\ phase = "ready" /\ adapter = NoAdapter /\ op # "ProtoAdapter"
       /\ \E c \in Constructions, camel_case \in BOOLEAN :
             Construct(c[1], c[2], c[3], camel_case)

SpecCompile == Init /\ [][NextCompile]_vars

\* C3: a field with no hint is compiled as no action when repeated, as the
\* adapter of its message type with select_field its name and no hints when
\* its type is a message, and as the reader of the path of its own name
\* otherwise.
DefaultAction(self, name, typeinfo, repeated) ==
    IF repeated THEN ActNone
    ELSE IF typeinfo \in MessageTypes
    THEN ActAdapter(ProtoAdapter(typeinfo, HintDict(<<>>), PyStr(name),
                                 PyBool(self.camel_case), PyInt(self.bytes_conversion)))
    ELSE ActRead(name)

Unhinted(hints, name) == hints.h = "none" \/ ~HintHas(hints, name)

C3_DefaultHints ==
    (op = "ProtoAdapter" /\ ~IsRaise(result)) =>
        \A i \in 1..Len(FIELDS(args[1])) :
            LET name == FIELDS(args[1])[i][1]
                typeinfo == FIELDS(args[1])[i][2]
                repeated == FIELDS(args[1])[i][3] = FLAG_REPEATED
            IN  Unhinted(args[2], name) =>
                    result.processors[i].action = DefaultAction(result, name, typeinfo, repeated)

C3_FailingInput ==
    /\ op = "ProtoAdapter"
    /\ args[1] = NEMSignTx
    /\ args[2] = HintNone
    /\ result.processors[1].action = ActRead(n_transfer)

\* The hint shapes the claim lists, looked for in the hints of the declared
\* fields at every depth. bare: whether a dict outside a tuple counts as one
\* whatever the field.
RECURSIVE BadHints(_, _, _)
BadHint(typeinfo, repeated, hint0, bare) ==
    LET hint == IF hint0.h = "tuple" /\ Len(hint0.items) = 2 THEN hint0.items[2] ELSE hint0
    IN  \/ bare /\ hint0.h = "dict"
        \/ hint.h = "list" /\ Len(hint.l) # 1
        \/ hint.h = "list" /\ ~repeated
        \/ hint.h = "dict" /\ typeinfo \notin MessageTypes
        \/ ~bare /\ hint.h = "dict" /\ repeated
        \/ hint.h = "dict" /\ typeinfo \in MessageTypes /\ ~repeated
              /\ BadHints(typeinfo, hint, bare)
        \/ hint.h = "list" /\ Len(hint.l) = 1 /\ repeated /\ typeinfo \in MessageTypes
              /\ hint.l[1].h = "dict" /\ BadHints(typeinfo, hint.l[1], bare)

BadHints(message_type, hints, bare) ==
    /\ hints.h = "dict"
    /\ \E i \in 1..Len(FIELDS(message_type)) :
          /\ HintHas(hints, FIELDS(message_type)[i][1])
          /\ BadHint(FIELDS(message_type)[i][2], FIELDS(message_type)[i][3] = FLAG_REPEATED,
                     HintGet(hints, FIELDS(message_type)[i][1]), bare)

\* C5 as stated: a bare dict, a list of length other than 1, a list for a
\* field not repeated, or a dict for a field that is no message, at any
\* depth, makes the construction raise and leave no adapter.
C5_HintShapeRejection ==
    (op = "ProtoAdapter" /\ BadHints(args[1], args[2], TRUE)) =>
        (IsRaise(result) /\ adapter = NoAdapter)

\* C5 as amended: a list of length other than 1, a list for a field not
\* repeated, or a dict, bare or second in a pair, for a field that is
\* repeated or no message, at any depth, makes the construction raise
\* ValueError and leave no adapter; a bare dict for a message field that is
\* not repeated is compiled as the adapter of that type with select_field the
\* field's name.
C5_HintShapeRejectionAmended ==
    op = "ProtoAdapter" =>
        /\ BadHints(args[1], args[2], FALSE) =>
              (result = Raise("ValueError") /\ adapter = NoAdapter)
        /\ (~IsRaise(result) /\ args[2].h = "dict") =>
              \A i \in 1..Len(FIELDS(args[1])) :
                  LET name == FIELDS(args[1])[i][1]
                      typeinfo == FIELDS(args[1])[i][2]
                  IN  (HintHas(args[2], name) /\ HintGet(args[2], name).h = "dict") =>
                          result.processors[i].action =
                              ActAdapter(ProtoAdapter(typeinfo, HintGet(args[2], name),
                                                      PyStr(name), PyBool(result.camel_case),
                                                      PyInt(result.bytes_conversion)))

\* A list of two items for mosaics, two levels below the hints of NEMSignTx
C5_Witness ==
    /\ op = "ProtoAdapter"
    /\ args[1] = NEMSignTx
    /\ args[2].h = "dict"
    /\ HintHas(args[2], n_transfer)
    /\ HintGet(args[2], n_transfer).h = "tuple"
    /\ HintGet(args[2], n_transfer).items[2] =
          HintDict(<< <<n_mosaics, HintList(<<HintDict(<<>>), HintDict(<<>>)>>)>> >>)
    /\ result = Raise("ValueError")
    /\ adapter = NoAdapter

-----------------------------------------------------------------------------
(* Path resolution: the inputs *)

MaxKeys == 2

KeyChars == {"a", "B", "_"}

\* Keys of one or two characters, and the two keys of the timestamp scenario
PathKeys ==
    {<<c>> : c \in KeyChars} \cup {<<c, d>> : c, d \in KeyChars}
        \cup {n_timeStamp, n_time_stamp}

\* The steps a hint may name: a key as it is, or in lower case with underscores
PathSteps == PathKeys \cup {lower(camelcase_sub(k)) : k \in PathKeys}

\* The dicts of distinct keys of at most n entries, the i-th with value i
RECURSIVE FlatDicts(_)
FlatDicts(n) ==
    IF n = 0 THEN {<<>>}
    ELSE FlatDicts(n - 1) \cup
         {Append(d, <<k, PyInt(n)>>) :
             <<d, k>> \in {x \in FlatDicts(n - 1) \X PathKeys :
                              Len(x[1]) = n - 1 /\ \A i \in 1..(n - 1) : x[1][i][1] # x[2]}}

FlatTrees == {PyDict(d) : d \in FlatDicts(MaxKeys)}

\* Values of every kind under the key "a", and paths that step through them
NestValues ==
    {PyNone, PyInt(0), PyStr(<<"a">>), PyBool(TRUE), PyList(<<>>),
     PyList(<<PyDict(<< <<(<<"a">>), PyInt(1)>> >>)>>),
     PyDict(<<>>), PyDict(<< <<(<<"a">>), PyInt(1)>> >>),
     PyDict(<< <<(<<"a", "B">>), PyNone>> >>),
     PyDict(<< <<(<<"a">>), PyDict(<< <<(<<"a", "B">>), PyInt(2)>> >>)>> >>)}

NestTrees == {PyDict(<< <<(<<"a">>), v>> >>) : v \in NestValues}

NestSteps == {<<"a">>, <<"a", "_", "b">>, <<"b">>, <<>>}

NestPaths ==
    {s1 \o <<".">> \o s2 : s1, s2 \in NestSteps}
        \cup {s1 \o <<".">> \o s2 \o <<".">> \o s3 : s1 \in {<<"a">>}, s2, s3 \in NestSteps}

PathInputs == (PathSteps \X FlatTrees) \cup (NestPaths \X NestTrees)

\* The state after the import of mapping.py and of the module that builds
\* the adapter
Ready ==
    /\ phase = "ready"
    /\ map_type_to_class = build_map("consistent").t2c
    /\ map_class_to_type = build_map("consistent").c2t

\* A call of traverse_path on each input, by an adapter of either camel_case
InitPath ==
    /\ Ready
    /\ adapter \in {ProtoAdapter(NEMMosaic, HintNone, PyNone, PyBool(c), PyNone) : c \in BOOLEAN}
    /\ op = "pending"
    /\ args \in PathInputs
    /\ result = PyNone

NextPath == op = "pending" /\ TraversePath(args[1], args[2])

SpecPath == InitPath /\ [][NextPath]_vars

\* The key of keys that the step is to resolve to, stated from the rule: the
\* exact key if there is one; else, with camel_case, the first key in order
\* whose form with "_" between a lowercase letter or digit and a following
\* uppercase letter, in lower case, is the step
Normalized(key) ==
    LET piece(i) == IF i > 1 /\ key[i - 1] \in LowerOrDigit /\ key[i] \in Upper
                    THEN <<"_", lower(<<key[i]>>)[1]>>
                    ELSE <<lower(<<key[i]>>)[1]>>
        glue[i \in 0..Len(key)] == IF i = 0 THEN <<>> ELSE glue[i - 1] \o piece(i)
    IN  glue[Len(key)]

ExpectedKeyIndex(camel_case, step, keys) ==
    IF \E i \in 1..Len(keys) : keys[i] = step
    THEN CHOOSE i \in 1..Len(keys) : keys[i] = step
    ELSE IF camel_case /\ \E i \in 1..Len(keys) : Normalized(keys[i]) = step
    THEN CHOOSE i \in 1..Len(keys) :
            /\ Normalized(keys[i]) = step
            /\ \A j \in 1..(i - 1) : Normalized(keys[j]) # step
    ELSE 0

RECURSIVE ExpectedResolve(_, _, _)
ExpectedResolve(camel_case, steps, root) ==
    IF steps = <<>> THEN root
    ELSE IF root.t # "dict" THEN Raise("AttributeError")
    ELSE LET i == ExpectedKeyIndex(camel_case, Head(steps), DictKeys(root))
         IN  IF i = 0 THEN PyNone
             ELSE ExpectedResolve(camel_case, Tail(steps), root.d[i][2])

\* The steps of a path, stated without split: the maximal runs between dots
StepsOf(pathstr) ==
    LET dots == {0, Len(pathstr) + 1} \cup {i \in 1..Len(pathstr) : pathstr[i] = "."}
        starts == {i \in dots : i <= Len(pathstr)}
        next(i) == CHOOSE j \in dots : j > i /\ \A k \in dots : k > i => j <= k
        run(i) == [k \in 1..(next(i) - i - 1) |-> pathstr[i + k]]
        nth[n \in 1..Cardinality(starts)] ==
            IF n = 1 THEN 0 ELSE next(nth[n - 1])
    IN  [n \in 1..Cardinality(starts) |-> run(nth[n])]

C4_NeverRaises == op = "traverse_path" => ~IsRaise(result)

-----------------------------------------------------------------------------
(* Adapter calls: the adapters and the input trees *)

MaxItems == 2

\* The hints of nem.py's adapter_nem_transfer, for the fields kept
TransferNemHints ==
    HintDict(<< <<n_public_key, HintStr(n_message \o <<".">> \o n_publicKey)>>,
                <<n_mosaics, HintList(<<HintDict(<<
                    <<n_namespace, HintStr(n_mosaicId \o <<".">> \o n_namespaceId)>> >>)>>)>> >>)

\* message_type, hints and select_field of the adapters called
NemAdapters ==
    {<<NEMTransfer, TransferNemHints, PyNone>>,
     <<NEMMosaic, HintNone, PyStr(n_mosaicId)>>,
     <<NEMMosaic, HintNone, PyStr(n_mosaic_id)>>,
     <<NEMMosaic, HintDict(<<>>), PyNone>>,
     <<NEMSignTx, HintDict(<< <<n_transfer,
                                HintTuple(<<HintStr(n_transfer), TransferNemHints>>)>> >>), PyNone>>,
     <<NEMSignTx, HintNone, PyNone>>,
     <<NEMTransfer, HintDict(<< <<n_amount, HintCallable(network)>> >>), PyNone>>,
     <<NEMTransfer, HintDict(<< <<n_mosaics, HintList(<<HintCallable(network)>>)>> >>), PyNone>>,
     <<NEMTransfer, HintNone, PyStr(<<>>)>>}

\* The dicts with, for each <<key, values>> of opts from the i-th on, no entry
\* or the key with one of the values
RECURSIVE TreesFrom(_, _)
TreesFrom(opts, i) ==
    IF i > Len(opts) THEN {<<>>}
    ELSE LET rest == TreesFrom(opts, i + 1)
         IN  rest \cup {<< <<opts[i][1], v>> >> \o d : v \in opts[i][2], d \in rest}

\* The sequences of at most n items
RECURSIVE ListsUpTo(_, _)
ListsUpTo(items, n) ==
    IF n = 0 THEN {<<>>}
    ELSE ListsUpTo(items, n - 1) \cup
         {Append(l, x) : <<l, x>> \in {y \in ListsUpTo(items, n - 1) \X items : Len(y[1]) = n - 1}}

\* Items of a mosaics list: with nothing to read, with a zero, empty text, a
\* negative quantity, a mosaicId that is null, and an item that is no mapping
ListItems ==
    {PyDict(<<>>),
     PyDict(<< <<n_quantity, PyInt(0)>> >>),
     PyDict(<< <<n_mosaicId, PyDict(<< <<n_namespaceId, PyStr(<<>>)>> >>)>> >>),
     PyDict(<< <<n_quantity, PyInt(0 - 1)>> >>),
     PyInt(1)}

MosaicTrees ==
    ListItems \cup
    {PyDict(<< <<n_mosaicId, PyNone>> >>),
     PyDict(<< <<n_namespace, PyStr(<<"a">>)>>, <<n_quantity, PyStr(<<"7">>)>> >>),
     PyDict(<< <<n_quantity, PyStr(<<"x">>)>> >>),
     PyDict(<< <<n_quantity, PyBool(FALSE)>> >>),
     PyDict(<< <<n_namespace, PyList(<<PyInt(1), PyStr(<<"a">>)>>)>> >>)}

TransferTrees ==
    {PyDict(d) : d \in TreesFrom(<<
        <<n_amount, {PyInt(0), PyInt(0 - 1)}>>,
        <<n_message, {PyDict(<< <<n_publicKey, PyStr(<<"f", "F">>)>> >>),
                      PyDict(<< <<n_publicKey, PyStr(<<>>)>> >>),
                      PyDict(<< <<n_publicKey, PyInt(1)>> >>)}>>,
        <<n_mosaics, {PyNone, PyInt(3)} \cup {PyList(l) : l \in ListsUpTo(ListItems, MaxItems)}>>
        >>, 1)}

ExtraTrees ==
    {PyDict(<< <<n_version, PyInt(1744830465)>>, <<n_amount, PyInt(1)>> >>),
     PyDict(<< <<n_version, PyStr(<<"1">>)>> >>),
     PyDict(<< <<n_publicKey, PyStr(<<"0", "a">>)>> >>),
     PyDict(<< <<n_publicKey, PyStr(<<"0">>)>> >>),
     PyDict(<< <<n_cosigning, PyInt(0)>> >>),
     PyDict(<< <<n_cosigning, PyStr(<<>>)>>, <<n_transfer, PyNone>> >>),
     PyDict(<< <<n_mosaics, PyList(<<PyDict(<< <<n_version, PyInt(0)>> >>)>>)>> >>),
     PyDict(<< <<(<<>>), PyDict(<< <<n_amount, PyInt(2)>> >>)>> >>)}

CallTrees ==
    TransferTrees
        \cup {PyDict(<< <<n_transfer, t>> >>) : t \in TransferTrees}
        \cup MosaicTrees
        \cup {PyDict(<< <<n_mosaicId, t>> >>) : t \in MosaicTrees}
        \cup ExtraTrees

\* The adapters of NemAdapters, constructed
Adapters ==
    {ProtoAdapter(c[1], c[2], c[3], PyBool(camel_case), PyNone) :
        c \in NemAdapters, camel_case \in BOOLEAN}

\* One call of each adapter on each tree
InitCall ==
    /\ Ready
    /\ adapter \in Adapters
    /\ op = "pending"
    /\ args \in {<<data>> : data \in CallTrees}
    /\ result = PyNone

NextCall == op = "pending" /\ Call(args[1])

SpecCall == InitCall /\ [][NextCall]_vars

\* The trees of the calls that follow one another: at most one mosaic
SmallTransferTrees ==
    {PyDict(d) : d \in TreesFrom(<<
        <<n_amount, {PyInt(0), PyInt(0 - 1)}>>,
        <<n_message, {PyDict(<< <<n_publicKey, PyStr(<<"f", "F">>)>> >>),
                      PyDict(<< <<n_publicKey, PyInt(1)>> >>)}>>,
        <<n_mosaics, {PyNone, PyList(<<>>), PyList(<<PyDict(<<>>)>>),
                      PyList(<<PyDict(<< <<n_quantity, PyInt(0 - 1)>> >>)>>)}>>
        >>, 1)}

SmallTrees ==
    SmallTransferTrees
        \cup {PyDict(<< <<n_transfer, t>> >>) :
                 t \in {x \in SmallTransferTrees : ~DictHas(x, n_message)}}
        \cup MosaicTrees
        \cup {PyDict(<< <<n_mosaicId, t>> >>) : t \in MosaicTrees}
        \cup ExtraTrees

Next ==
    \/ \E env \in Envs : BuildMap(env)
    \/ /\ phase = "ready" /\ adapter = NoAdapter /\ op # "ProtoAdapter"
       /\ \E c \in NemAdapters, camel_case \in BOOLEAN : Construct(c[1], c[2], c[3], camel_case)
    \/ /\ adapter # NoAdapter
       /\ \E data \in SmallTrees : Call(data)

Spec == Init /\ [][Next]_vars

-----------------------------------------------------------------------------
(* Adapter calls: the claims *)

\* The working tree of a call that gets past the lookup of select_field
Entered(self, data) ==
    ~select_field_set(self) \/ (data.t = "dict" /\ DictHas(data, self.select_field.s))

Working(self, data) ==
    IF select_field_set(self) THEN DictGet(data, self.select_field.s) ELSE data

\* The field of a message
MsgField(m, name) == m.f[CHOOSE i \in 1..Len(m.f) : m.f[i][1] = name][2]

IsEmptyValue(v) == v = PyNone \/ v = PyList(<<>>)

\* C1: a call that does not raise returns None exactly when every field's
\* typed value is None or an empty list, and otherwise a message of the
\* adapter's type with every field set to its typed value; 0, False, empty
\* text and empty bytes are not empty.
C1_Elision ==
    (op = "call" /\ ~IsRaise(result) /\ Entered(adapter, args[1])) =>
        LET w == Working(adapter, args[1])
            n == Len(adapter.processors)
            typed == [i \in 1..n |-> field_value(adapter, adapter.processors[i], w)]
        IN  /\ (result = PyNone) <=> (\A i \in 1..n : IsEmptyValue(typed[i]))
            /\ result # PyNone =>
                  result = PyMsg(adapter.message_type,
                                 [i \in 1..n |-> <<adapter.processors[i].name, typed[i]>>])
            /\ (\E i \in 1..n : typed[i] \in {PyInt(0), PyBool(FALSE), PyStr(<<>>), PyBytes(<<>>)})
                  => result.t = "msg"

\* A record whose only value that is not None or [] is a zero
C1_Witness ==
    /\ op = "call"
    /\ result.t = "msg"
    /\ result.cls = NEMTransfer
    /\ MsgField(result, n_amount) = PyInt(0)
    /\ MsgField(result, n_public_key) = PyNone
    /\ MsgField(result, n_mosaics) = PyList(<<>>)

C6_NestedListAbsent ==
    (op = "call" /\ Entered(adapter, args[1])) =>
        \A i \in 1..Len(adapter.processors) :
            LET p == adapter.processors[i]
                w == Working(adapter, args[1])
            IN  (p.action.a = "map_action" /\ traverse_path(adapter, p.action.path, w) = PyNone)
                    => /\ field_value(adapter, p, w) = PyList(<<>>)
                       /\ result.t = "msg" => MsgField(result, p.name) = PyList(<<>>)

\* A message returned with mosaics [] for a tree with no key mosaics
C6_Witness ==
    /\ op = "call"
    /\ adapter.message_type = NEMTransfer
    /\ adapter.processors[3].action.a = "map_action"
    /\ args[1].t = "dict" /\ ~DictHas(args[1], n_mosaics)
    /\ result.t = "msg"
    /\ MsgField(result, n_mosaics) = PyList(<<>>)

\* C10: a repeated field compiled from a list hint with a hint dict for the
\* items has, for a path that resolves to a list, one element for each item,
\* in order: what the items' adapter returns for it, None for an item whose
\* fields are all None or empty; a list that is not empty keeps the message
\* from being elided.
C10_NestedListItems ==
    (op = "call" /\ ~IsRaise(result) /\ Entered(adapter, args[1])) =>
        \A i \in 1..Len(adapter.processors) :
            LET p == adapter.processors[i]
                w == Working(adapter, args[1])
                items == traverse_path(adapter, p.action.path, w)
                sub == p.action.action.adapter
            IN  (p.action.a = "map_action" /\ p.action.action.a = "adapter" /\ items.t = "list"
                    /\ Len(items.l) > 0)
                    => /\ result.t = "msg"
                       /\ MsgField(result, p.name).t = "list"
                       /\ Len(MsgField(result, p.name).l) = Len(items.l)
                       /\ \A j \in 1..Len(items.l) :
                             /\ MsgField(result, p.name).l[j] = call(sub, items.l[j])
                             /\ (\A k \in 1..Len(sub.processors) :
                                    IsEmptyValue(field_value(sub, sub.processors[k], items.l[j])))
                                   => MsgField(result, p.name).l[j] = PyNone

\* A message whose mosaics are one None, and nothing else
C10_Witness ==
    /\ op = "call"
    /\ args[1] = PyDict(<< <<n_mosaics, PyList(<<PyDict(<<>>)>>)>> >>)
    /\ result = PyMsg(NEMTransfer, << <<n_amount, PyNone>>, <<n_public_key, PyNone>>,
                                      <<n_mosaics, PyList(<<PyNone>>)>> >>)

\* C9: a call, whatever it returns or raises, leaves the adapter and the
\* registry as they were, and its result is that of the adapter as it was
\* constructed on that tree alone; what is raised is no message.
C9_AdapterImmutable ==
    [][/\ adapter # NoAdapter => adapter' = adapter
       /\ op' = "call" =>
             /\ UNCHANGED <<adapter, map_type_to_class, map_class_to_type, phase>>
             /\ result' = call(adapter, args'[1])
             /\ IsRaise(result') => result'.exc \in {"AdapterError", "AttributeError",
                                       "TypeError", "KeyError", "ValueError", "binascii.Error"}
      ]_vars

\* A call that raised AdapterError
C9_Witness ==
    /\ op = "call"
    /\ result = Raise("AdapterError")
    /\ adapter.message_type = NEMSignTx
====
